---- MODULE Spec2Model ----
(***************************************************************************)
(* Model of the concurrent crawl-and-ingest engine of backend/main.py:     *)
(* three typed queues and the to-parse queue (queue.Queue with its         *)
(* unfinished_tasks counter), the crawler and parser threads, the visited  *)
(* sets with their per-folder locks, the in-memory content cache, the      *)
(* Neo4j writes of the extractors, the main thread's joins and its except  *)
(* handler, which pickles the visited sets to visited.pkl.                 *)
(***************************************************************************)
EXTENDS Integers, Sequences, FiniteSets, TLC

\* ---------------------------------------------------------------- bounds
\* Number of crawler threads modelled (main.py starts CRAWLER_COUNT = 3).
CRAWLER_COUNT == 2
\* Number of parser threads modelled (main.py starts PARSER_COUNT = 4).
PARSER_COUNT == 1
\* Number of tasks an external producer may put on the typed queues.
MaxSubmit == 2
\* Number of copies of one relationship the graph-store model counts up to.
MaxCopies == 2

\* ------------------------------------------------------ program constants
NULL_CMD == -1
NO_TASK == -2
NO_FROM == [name |-> "Unknown", folder |-> "Unknown"]

\* ------------------------------------------------------------ the entities
Folders == {"hackers", "devposts", "hackathons"}
QueueNames == Folders \cup {"todo"}
HackerNames == {"alice", "bob"}
DevpostNames == {"proj1", "proj2"}
\* The three folders are separate namespaces: the hackathon's name is also
\* the name of a hacker.
HackathonNames == {"alice"}
NamesOf(folder) ==
    CASE folder = "hackers" -> HackerNames
      [] folder = "devposts" -> DevpostNames
      [] folder = "hackathons" -> HackathonNames
AllNames == HackerNames \cup DevpostNames \cup HackathonNames
SeedName == "alice"

\* The page the site serves for an entity: the references an extractor can
\* find on it, in page order.
PageLinks(folder, name) ==
    CASE folder = "hackers" /\ name = "alice" -> <<"proj1", "proj2">>
      [] folder = "devposts" /\ name = "proj1" -> <<"alice", "bob">>
      [] folder = "devposts" /\ name = "proj2" -> <<"bob">>
      [] OTHER -> <<>>

\* The names os.listdir finds in ./hackers, ./devposts and ./hackathons at
\* startup: one project page is left on disk from an earlier run.
DiskFiles(folder) == IF folder = "devposts" THEN {"proj2"} ELSE {}

\* Raw page content is identified by the entity whose page it is.
NoContent == [folder |-> "none", name |-> "none"]
Page(folder, name) == [folder |-> folder, name |-> name]

\* ------------------------------------------------------------- the threads
Crawlers == {<<"Crawler", i>> : i \in 0 .. CRAWLER_COUNT - 1}
Parsers == {<<"Parser", i>> : i \in 0 .. PARSER_COUNT - 1}
Workers == Crawlers \cup Parsers
Nobody == <<"None", 0>>

\* ------------------------------------------------------------------- tasks
\* A queue item is the dict put on a typed queue ({'name': ..} with an
\* optional 'from'), or the sentinel.
Sentinel == [cmd |-> NULL_CMD]
\* What stands in the 'from' field of a dict that has no 'from' key.
NoKey == [name |-> "none", folder |-> "none"]
Item(name, has_from, from) ==
    [name |-> name, has_from |-> has_from, from |-> from]
\* The task dict get_crawler_task builds; its done_callback field is mutable
\* and lives in the variable done_callback, keyed by the task.
Task(folder, item) ==
    [folder |-> folder, name |-> item.name,
     from |-> IF item.has_from THEN item.from ELSE NO_FROM]
NoTask == [folder |-> "none", name |-> "none", from |-> NO_FROM]
Froms == {NO_FROM} \cup
         {[name |-> n, folder |-> "hackers"] : n \in HackerNames} \cup
         {[name |-> n, folder |-> "devposts"] : n \in DevpostNames}
Tasks == UNION {{[folder |-> f, name |-> n, from |-> fr] : n \in NamesOf(f), fr \in Froms} : f \in Folders}

VARIABLES
    queue,            \* queue[q]: items waiting on q_hacker, q_devpost, q_hackathon, q_todo
    unfinished_tasks, \* queue[q].unfinished_tasks of queue.Queue
    lock,             \* visited[folder]['lock']: the holder, or Nobody
    local,            \* visited[folder]['local']
    now,              \* visited[folder]['now']
    memory,           \* memory[name]: raw content handed from crawler to parser
    pc,               \* position of every worker thread
    task,             \* the task dict a worker holds
    done_callback,    \* task['done_callback'] of every task dict created so far
    failure,          \* the exception that ended a worker thread, if any
    empty_seen,       \* typed queues that raised Empty in a crawler's latest get_crawler_task call
    main_pc,          \* position of the main thread
    nodes,            \* graph store: number of nodes per (label, name, props)
    edges,            \* graph store: number of CONTRIBUTED_TO edges per node pair
    fetches,          \* pages driver.get has returned, per (folder, name)
    todo_puts,        \* q_todo.put calls per (folder, name)
    acks,             \* task_done calls made through each task dict, per queue
    submitted,        \* tasks put by the external producer
    stop_sent,        \* whether the stop sentinels have been sent
    snapshot,         \* what has been written to visited.pkl
    repair_pc,        \* repair.py: position of main()
    valid_scraped,    \* repair.py: the projects whose scrape returned data, by index
    future_to_index,  \* repair.py: indexes of the vectorization futures not yet completed
    vectors,          \* repair.py: the dict vectors, as its (index, vector) items in insertion order
    vectors_array     \* repair.py: the rows of vectors_array (and of similarity_matrix)

vars == <<queue, unfinished_tasks, lock, local, now, memory, pc, task,
          done_callback, failure, empty_seen, main_pc, nodes, edges,
          fetches, todo_puts, acks, submitted, stop_sent, snapshot,
          repair_pc, valid_scraped, future_to_index, vectors, vectors_array>>

queueVars == <<queue, unfinished_tasks>>
visitedVars == <<lock, local, now>>
storeVars == <<nodes, edges>>
repairVars == <<repair_pc, valid_scraped, future_to_index, vectors, vectors_array>>
envVars == <<submitted, stop_sent, snapshot, repairVars>>

\* --------------------------------------------------------- queue.Queue
\* Queue.put: append and count the item as unfinished.
Put(qs, q, items) == [qs EXCEPT ![q] = @ \o items]
PutCount(un, q, n) == [un EXCEPT ![q] = @ + n]

\* ----------------------------------------------------------- graph store
NodeKeys == [label : {"Hacker", "Devpost"}, name : AllNames, props : {"extracted", "undefined"}]
EdgeKeys == [h : HackerNames, d : DevpostNames]
HackerNode(name, props) == [label |-> "Hacker", name |-> name, props |-> props]
DevpostNode(name, props) == [label |-> "Devpost", name |-> name, props |-> props]

\* MERGE (:Label {...}): create the node unless one with these properties exists.
MergeNode(ns, node) == IF ns[node] = 0 THEN [ns EXCEPT ![node] = 1] ELSE ns

\* Number of (h, d) pairs MATCH (h:Hacker {name}), (d:Devpost {name}) yields.
Matched(ns, hacker, devpost) ==
    LET hs == {p \in {"extracted", "undefined"} : ns[HackerNode(hacker, p)] > 0}
        ds == {p \in {"extracted", "undefined"} : ns[DevpostNode(devpost, p)] > 0}
    IN  Cardinality(hs) * Cardinality(ds)

\* main.py generate_connection: MATCH ... MERGE (h)-[:CONTRIBUTED_TO]->(d).
generate_connection(ns, es, hacker, devpost) ==
    LET e == [h |-> hacker, d |-> devpost]
    IN  IF Matched(ns, hacker, devpost) > 0 /\ es[e] = 0
        THEN [es EXCEPT ![e] = Matched(ns, hacker, devpost)]
        ELSE es

\* hackathon.py generate_connection: MATCH ... CREATE (h)-[:CONTRIBUTED_TO]->(d).
generate_connection_hackathon(ns, es, hacker, devpost) ==
    LET e == [h |-> hacker, d |-> devpost]
    IN  [es EXCEPT ![e] = @ + Matched(ns, hacker, devpost)]

RECURSIVE ConnectAll(_, _, _, _)
\* for x in refs: generate_connection(session, ...) over (hacker, devpost) pairs.
ConnectAll(ns, es, pairs, i) ==
    IF i > Len(pairs) THEN es
    ELSE ConnectAll(ns, generate_connection(ns, es, pairs[i][1], pairs[i][2]), pairs, i + 1)

\* No task_done call has been made through a task dict yet.
NoAcks == [q \in QueueNames |-> 0]

\* visited.pkl has not been written.
NoSnapshot == [file |-> "none"]
\* visited.pkl was opened for writing and pickle.dump did not complete.
Truncated == [file |-> "truncated"]

\* The positions of the main thread inside and after the except handler,
\* where the 'lock' keys have been deleted from visited.
HandlerPcs == {"dump", "dumping", "snapshotted", "dump_failed"}

\* Whether visited[folder] still has its 'lock' key.
HasLock(folder) == main_pc \notin HandlerPcs

\* Mutation: the set is replaced by the singleton of the new name.
addMutant(s, name) == {name}

\* set.add
add(s, name) == s \cup {name}

\* ------------------------------------------------- repair.py, main()
\* The names get_all_devposts returns, in the order of the query result.
devposts == <<"proj0", "proj1", "proj2">>

\* vectorize_project(project_data)['combined']: the vector is identified by
\* the project it was computed from.
Vector(project) == [of |-> project]

\* repair.py has not been started.
RepairNotRun ==
    /\ repair_pc = "scrape"
    /\ valid_scraped = <<>>
    /\ future_to_index = {}
    /\ vectors = <<>>
    /\ vectors_array = <<>>

\* --------------------------------------------------------------- Init
Init ==
    /\ queue = [q \in QueueNames |-> <<>>]
    /\ unfinished_tasks = [q \in QueueNames |-> 0]
    /\ lock = [f \in Folders |-> Nobody]
    /\ local = [f \in Folders |-> DiskFiles(f)]
    /\ now = [f \in Folders |-> {}]
    /\ memory = [n \in AllNames |-> NoContent]
    /\ pc = [w \in Workers |-> IF w \in Crawlers THEN "get_hacker" ELSE "get"]
    /\ task = [w \in Workers |-> NoTask]
    /\ done_callback = [t \in {} |-> "none"]
    /\ failure = [w \in Workers |-> "none"]
    /\ empty_seen = [c \in Crawlers |-> {}]
    /\ main_pc = "put_seed"
    /\ nodes = [k \in NodeKeys |-> 0]
    /\ edges = [k \in EdgeKeys |-> 0]
    /\ fetches = [f \in Folders |-> [n \in NamesOf(f) |-> 0]]
    /\ todo_puts = [f \in Folders |-> [n \in NamesOf(f) |-> 0]]
    /\ acks = [t \in {} |-> NoAcks]
    /\ submitted = 0
    /\ stop_sent = FALSE
    /\ snapshot = NoSnapshot
    /\ RepairNotRun

\* ------------------------------------------------------------ crawler
\* Mutation: the project queue is polled before the hacker queue.
PollOrderMutant == <<"devposts", "hackers", "hackathons">>

\* get_crawler_task polls q_hacker, then q_devpost, then q_hackathon.
PollOrder == <<"hackers", "devposts", "hackathons">>
PollPc(i) == <<"get_hacker", "get_devpost", "get_hackathon">>[i]
PollIndex(p) == CHOOSE i \in 1 .. 3 : PollPc(i) = p

\* Mutation: a crawler that finds nothing to do leaves its loop.
OnNoTaskMutant == "exit"

\* On {'error': NO_TASK} the crawler prints and continues: it calls
\* get_crawler_task again, which starts with q_hacker.
OnNoTask == PollPc(1)

\* Whether get_crawler_task compares what it dequeued from q with NULL_CMD.
ChecksSentinel(q) == q = "hackers"

\* One q.get(timeout=TIMEOUT) of get_crawler_task and what follows it.
get_crawler_task(c) ==
    /\ pc[c] \in {"get_hacker", "get_devpost", "get_hackathon"}
    /\ LET i == PollIndex(pc[c])
           q == PollOrder[i]
       IN  IF queue[q] = <<>>
           THEN \* Empty: fall through to the next queue, or return NO_TASK
                \* and let the crawler log and call get_crawler_task again
                /\ empty_seen' = [empty_seen EXCEPT ![c] = IF i < 3 THEN @ \cup {q} ELSE {}]
                /\ pc' = [pc EXCEPT ![c] = IF i < 3 THEN PollPc(i + 1) ELSE OnNoTask]
                /\ UNCHANGED <<queue, task, done_callback, acks, failure>>
           ELSE LET content == Head(queue[q])
                IN  /\ queue' = [queue EXCEPT ![q] = Tail(@)]
                    /\ UNCHANGED empty_seen
                    /\ IF content = Sentinel
                       THEN IF ChecksSentinel(q)
                            THEN \* {'error': NULL_CMD}: break, driver.quit()
                                 /\ pc' = [pc EXCEPT ![c] = "exit"]
                                 /\ UNCHANGED <<task, done_callback, acks, failure>>
                            ELSE \* content['name'] on an int
                                 /\ pc' = [pc EXCEPT ![c] = "crashed"]
                                 /\ failure' = [failure EXCEPT ![c] = "TypeError"]
                                 /\ UNCHANGED <<task, done_callback, acks>>
                       ELSE /\ task' = [task EXCEPT ![c] = Task(q, content)]
                            /\ done_callback' = (Task(q, content) :> q) @@ done_callback
                            /\ acks' = (Task(q, content) :> NoAcks) @@ acks
                            /\ IF HasLock(q)
                               THEN \* visited[task['folder']]['lock'] is looked up
                                    /\ pc' = [pc EXCEPT ![c] = "lock"]
                                    /\ UNCHANGED failure
                               ELSE \* the key has been deleted
                                    /\ pc' = [pc EXCEPT ![c] = "crashed"]
                                    /\ failure' = [failure EXCEPT ![c] = "KeyError"]
    /\ UNCHANGED <<unfinished_tasks, visitedVars, memory, main_pc, storeVars,
                   fetches, todo_puts, envVars>>

\* Mutation: one lock for all folders.
LockFreeGlobalMutant(folder) == \A f \in Folders : lock[f] = Nobody

\* Mutation: the crawlers do not exclude each other.
LockFreeMutant(folder) == TRUE

\* Whether a crawler can take visited[folder]['lock'].
LockFree(folder) == lock[folder] = Nobody

\* Mutation: no page is fetched and no name recorded in 'local'.
NeedsFetchNeverMutant(tsk) == FALSE

\* Mutation: the page is fetched whatever 'local' holds.
NeedsFetchMutant(tsk) == TRUE

\* The test that guards the fetch: if task['name'] not in visited[..]['local'].
NeedsFetch(tsk) == tsk.name \notin local[tsk.folder]

\* Mutation: no task is enqueued for parsing.
NeedsEnqueueNeverMutant(tsk, nowSet) == FALSE

\* Mutation: the task is enqueued for parsing whatever 'now' holds.
NeedsEnqueueMutant(tsk, nowSet) == TRUE

\* The test that guards the to-parse enqueue, on the 'now' set as it is when
\* the test is made: if task['name'] not in visited[..]['now'].
NeedsEnqueue(tsk, nowSet) == tsk.name \notin nowSet

\* with visited[task['folder']]['lock']: the blocking acquire, and the tests
\* that decide where the body goes next.
CrawlerLock(c) ==
    /\ pc[c] = "lock"
    /\ LockFree(task[c].folder)
    /\ lock' = [lock EXCEPT ![task[c].folder] = c]
    /\ pc' = [pc EXCEPT ![c] =
                IF NeedsFetch(task[c]) THEN "fetching"
                ELSE IF NeedsEnqueue(task[c], now[task[c].folder]) THEN "enqueue"
                ELSE "ack"]
    /\ UNCHANGED <<queueVars, local, now, memory, task, done_callback, failure,
                   empty_seen, main_pc, storeVars, fetches, todo_puts, acks, envVars>>

\* driver.get(task['url']) returns: memory[name] = driver.page_source,
\* local.add(name), then the test on 'now'.
CrawlerFetch(c) ==
    /\ pc[c] = "fetching"
    /\ LET f == task[c].folder
           n == task[c].name
       IN  /\ fetches' = [fetches EXCEPT ![f][n] = @ + 1]
           /\ memory' = [memory EXCEPT ![n] = Page(f, n)]
           /\ local' = [local EXCEPT ![f] = add(@, n)]
    /\ pc' = [pc EXCEPT ![c] =
                IF NeedsEnqueue(task[c], now[task[c].folder]) THEN "enqueue" ELSE "ack"]
    /\ UNCHANGED <<queueVars, lock, now, task, done_callback, failure,
                   empty_seen, main_pc, storeVars, todo_puts, acks, envVars>>

\* Mutation: the lock stays with the crawler whose fetch failed.
LockAfterErrorMutant(c) == c

\* The holder of the lock once an exception has left the with block.
LockAfterError(c) == Nobody

\* driver.get(task['url']) raises (a driver error): the with block is left by
\* the exception, nothing in crawler catches it and the thread ends; the task
\* is not acknowledged and nothing of the body after driver.get has run.
CrawlerFetchFails(c) ==
    /\ pc[c] = "fetching"
    /\ lock' = [lock EXCEPT ![task[c].folder] = LockAfterError(c)]
    /\ pc' = [pc EXCEPT ![c] = "crashed"]
    /\ failure' = [failure EXCEPT ![c] = "WebDriverException"]
    /\ UNCHANGED <<queueVars, local, now, memory, task, done_callback,
                   empty_seen, main_pc, storeVars, fetches, todo_puts, acks, envVars>>

\* The body of the second if: the page is loaded from its file if it is not
\* in memory, then q_todo.put(task) and now.add(name).
CrawlerEnqueue(c) ==
    /\ pc[c] = "enqueue"
    /\ LET f == task[c].folder
           n == task[c].name
       IN  /\ memory' = IF memory[n] = NoContent
                        THEN [memory EXCEPT ![n] = Page(f, n)]
                        ELSE memory
           /\ queue' = Put(queue, "todo", <<task[c]>>)
           /\ unfinished_tasks' = PutCount(unfinished_tasks, "todo", 1)
           /\ todo_puts' = [todo_puts EXCEPT ![f][n] = @ + 1]
           /\ now' = [now EXCEPT ![f] = add(@, n)]
    /\ pc' = [pc EXCEPT ![c] = "ack"]
    /\ UNCHANGED <<lock, local, task, done_callback, failure, empty_seen,
                   main_pc, storeVars, fetches, acks, envVars>>

\* task['done_callback'](), still inside the with block: Queue.task_done of
\* whatever queue the field names at that moment (ValueError if that queue has
\* no unfinished task, which ends the thread); then the with block is left,
\* releasing the lock, and the loop starts over.
CrawlerAck(c) ==
    /\ pc[c] = "ack"
    /\ LET q == done_callback[task[c]]
       IN  /\ acks' = [acks EXCEPT ![task[c]][q] = @ + 1]
           /\ IF unfinished_tasks[q] = 0
              THEN /\ failure' = [failure EXCEPT ![c] = "ValueError"]
                   /\ pc' = [pc EXCEPT ![c] = "crashed"]
                   /\ UNCHANGED <<unfinished_tasks, task, empty_seen>>
              ELSE /\ unfinished_tasks' = [unfinished_tasks EXCEPT ![q] = @ - 1]
                   /\ pc' = [pc EXCEPT ![c] = "get_hacker"]
                   /\ task' = [task EXCEPT ![c] = NoTask]
                   /\ empty_seen' = [empty_seen EXCEPT ![c] = {}]
                   /\ UNCHANGED failure
    /\ lock' = [lock EXCEPT ![task[c].folder] =
                    IF unfinished_tasks[done_callback[task[c]]] = 0
                    THEN LockAfterError(c)
                    ELSE Nobody]
    /\ UNCHANGED <<queue, local, now, memory, done_callback,
                   main_pc, storeVars, fetches, todo_puts, envVars>>

\* ------------------------------------------------------------- parser
\* Mutation: the parser also looks at q_todo while it has a task in hand.
ParserPollsMutant(p) == pc[p] \in {"get", "parse"}

\* The parser calls get_parser_task at the top of its loop only.
ParserPolls(p) == pc[p] = "get"

\* get_parser_task: q_todo.get(timeout=TIMEOUT); the dequeued dict is the one
\* the crawler put, and its done_callback field is overwritten in place.
get_parser_task(p) ==
    /\ ParserPolls(p)
    /\ IF queue["todo"] = <<>>
       THEN \* Empty: {'error': NO_TASK}, continue
            UNCHANGED <<queue, pc, task, done_callback>>
       ELSE LET content == Head(queue["todo"])
            IN  /\ queue' = [queue EXCEPT !["todo"] = Tail(@)]
                /\ IF content = Sentinel
                   THEN \* {'error': NULL_CMD}: break
                        /\ pc' = [pc EXCEPT ![p] = "exit"]
                        /\ UNCHANGED <<task, done_callback>>
                   ELSE /\ done_callback' = [done_callback EXCEPT ![content] = "todo"]
                        /\ task' = [task EXCEPT ![p] = content]
                        /\ pc' = [pc EXCEPT ![p] = "parse"]
    /\ UNCHANGED <<unfinished_tasks, visitedVars, memory, failure, empty_seen,
                   main_pc, storeVars, fetches, todo_puts, acks, envVars>>

\* Mutation: parse_devpost finds no contributor.
ExtractRefsMutant(folder, content) ==
    IF content.folder = folder /\ folder = "hackers"
    THEN PageLinks(content.folder, content.name)
    ELSE <<>>

\* The references the extractor of a folder finds in a piece of content: the
\* anchors it looks for are those of a page of that folder.
ExtractRefs(folder, content) ==
    IF content.folder = folder THEN PageLinks(content.folder, content.name) ELSE <<>>

\* The scalar fields (displayName, hackathonName): found on the entity's own
\* page, "undefined" otherwise.
ExtractProps(tsk, content) ==
    IF content = Page(tsk.folder, tsk.name) THEN "extracted" ELSE "undefined"

\* Mutation: a reference is put only if its name is not in 'now' of its folder.
DiscoveredMutant(tsk, refs) ==
    LET folder == IF tsk.folder = "hackers" THEN "devposts" ELSE "hackers"
        NotEnqueued(n) == n \notin now[folder]
        fresh == SelectSeq(refs, NotEnqueued)
    IN  [i \in 1 .. Len(fresh) |-> Item(fresh[i], TRUE, [name |-> tsk.name, folder |-> tsk.folder])]

\* Mutation: the dicts are put without their 'from' key.
DiscoveredNoFromMutant(tsk, refs) ==
    [i \in 1 .. Len(refs) |-> Item(refs[i], FALSE, NoKey)]

\* The dicts parse_hacker / parse_devpost put on the other typed queue.
Discovered(tsk, refs) ==
    [i \in 1 .. Len(refs) |-> Item(refs[i], TRUE, [name |-> tsk.name, folder |-> tsk.folder])]

\* The typed queue an extractor feeds.
TargetQueue(folder) == IF folder = "hackers" THEN "devposts" ELSE "hackers"

\* The (hacker, devpost) pairs an extractor passes to generate_connection.
Connections(tsk, refs) ==
    [i \in 1 .. Len(refs) |-> IF tsk.folder = "hackers" THEN <<tsk.name, refs[i]>>
                                                        ELSE <<refs[i], tsk.name>>]

\* The node an extractor merges.
MergedNode(tsk, content) ==
    IF tsk.folder = "hackers" THEN HackerNode(tsk.name, ExtractProps(tsk, content))
                              ELSE DevpostNode(tsk.name, ExtractProps(tsk, content))

\* content = memory[name]; del memory[name]; then parse_hacker or parse_devpost:
\* extraction, the graph writes, the puts on the typed queue and
\* task['done_callback'](). A hackathon task is dispatched to nothing.
ParserParse(p) ==
    /\ pc[p] = "parse"
    /\ LET tsk == task[p]
           content == memory[tsk.name]
           refs == ExtractRefs(tsk.folder, content)
           q == done_callback[tsk]
           ns == MergeNode(nodes, MergedNode(tsk, content))
       IN  IF content = NoContent
           THEN \* KeyError
                /\ failure' = [failure EXCEPT ![p] = "KeyError"]
                /\ pc' = [pc EXCEPT ![p] = "crashed"]
                /\ UNCHANGED <<queueVars, memory, storeVars, acks, task>>
           ELSE /\ memory' = [memory EXCEPT ![tsk.name] = NoContent]
                /\ IF tsk.folder = "hackathons"
                   THEN /\ pc' = [pc EXCEPT ![p] = "get"]
                        /\ task' = [task EXCEPT ![p] = NoTask]
                        /\ UNCHANGED <<queueVars, storeVars, acks, failure>>
                   ELSE /\ nodes' = ns
                        /\ edges' = ConnectAll(ns, edges, Connections(tsk, refs), 1)
                        /\ queue' = Put(queue, TargetQueue(tsk.folder), Discovered(tsk, refs))
                        /\ acks' = [acks EXCEPT ![tsk][q] = @ + 1]
                        /\ LET un == PutCount(unfinished_tasks, TargetQueue(tsk.folder), Len(refs))
                           IN  IF un[q] = 0
                               THEN /\ unfinished_tasks' = un
                                    /\ failure' = [failure EXCEPT ![p] = "ValueError"]
                                    /\ pc' = [pc EXCEPT ![p] = "crashed"]
                                    /\ UNCHANGED task
                               ELSE /\ unfinished_tasks' = [un EXCEPT ![q] = @ - 1]
                                    /\ pc' = [pc EXCEPT ![p] = "get"]
                                    /\ task' = [task EXCEPT ![p] = NoTask]
                                    /\ UNCHANGED failure
    /\ UNCHANGED <<visitedVars, done_callback, empty_seen, main_pc,
                   fetches, todo_puts, envVars>>

\* parse_devpost on a page whose markup is not what the extraction loop
\* indexes into (the "software-list-content" marker without the anchor two
\* lines below it, a profile link without its closing quote): the split or
\* the subscript raises IndexError before any write, nothing in parser
\* catches it, and the thread ends. The content has already been deleted.
ParserParseFails(p) ==
    /\ pc[p] = "parse"
    /\ task[p].folder = "devposts"
    /\ memory[task[p].name] # NoContent
    /\ memory' = [memory EXCEPT ![task[p].name] = NoContent]
    /\ failure' = [failure EXCEPT ![p] = "IndexError"]
    /\ pc' = [pc EXCEPT ![p] = "crashed"]
    /\ UNCHANGED <<queueVars, visitedVars, task, done_callback, empty_seen, main_pc,
                   storeVars, fetches, todo_puts, acks, envVars>>

\* --------------------------------------------------------- main thread
JoinOrder == <<"todo", "hackers", "devposts", "hackathons">>
Terminated(w) == pc[w] \in {"exit", "crashed"}

\* Mutation: two seeds are injected.
SeedsMutant == <<Item(SeedName, FALSE, NoKey), Item("bob", FALSE, NoKey)>>

\* What the main thread puts on q_hacker to start the run: {'name': ...}.
Seeds == <<Item(SeedName, FALSE, NoKey)>>

\* q_hacker.put({'name': ...}); the four Queue.join() calls in turn; the
\* joins on the worker threads; print("All workers stopped.").
Main ==
    /\ CASE main_pc = "put_seed" ->
              /\ queue' = Put(queue, "hackers", Seeds)
              /\ unfinished_tasks' = PutCount(unfinished_tasks, "hackers", Len(Seeds))
              /\ main_pc' = "join_1"
         [] main_pc \in {"join_1", "join_2", "join_3", "join_4"} ->
              LET i == CHOOSE k \in 1 .. 4 : main_pc = <<"join_1", "join_2", "join_3", "join_4">>[k]
              IN  /\ unfinished_tasks[JoinOrder[i]] = 0
                  /\ main_pc' = <<"join_2", "join_3", "join_4", "join_workers">>[i]
                  /\ UNCHANGED queueVars
         [] main_pc = "join_workers" ->
              /\ \A w \in Workers : Terminated(w)
              /\ main_pc' = "done"
              /\ UNCHANGED queueVars
         [] OTHER -> FALSE
    /\ UNCHANGED <<visitedVars, memory, pc, task, done_callback, failure,
                   empty_seen, storeVars, fetches, todo_puts, acks, envVars>>

\* ------------------------------------------------- the except handler
\* The keys of visited[folder].
VisitedKeys(folder) == {"local", "now"} \cup (IF HasLock(folder) THEN {"lock"} ELSE {})

\* pickle cannot serialize a threading.Lock.
Picklable == \A f \in Folders : "lock" \notin VisitedKeys(f)

\* What pickle.dump(visited, f) writes for the sets as they are now.
Pickled == [f \in Folders |-> [local |-> local[f], now |-> now[f]]]

\* Mutation: the dump also runs when the try block ends normally.
TryPcsMutant == {"put_seed", "join_1", "join_2", "join_3", "join_4", "join_workers", "done"}

\* Where the main thread is while it is inside the try block: the except
\* clauses are the only code that writes visited.pkl, and there is no
\* finally or else clause.
TryPcs == {"put_seed", "join_1", "join_2", "join_3", "join_4", "join_workers"}

\* KeyboardInterrupt (or OSError) is raised in the main thread inside the try
\* block; the handler runs "for i in visited: del visited[i]['lock']".
Interrupt ==
    /\ main_pc \in TryPcs
    /\ main_pc' = "dump"
    /\ UNCHANGED <<queueVars, visitedVars, memory, pc, task, done_callback, failure,
                   empty_seen, storeVars, fetches, todo_puts, acks, envVars>>

\* open('visited.pkl', 'wb') and the start of pickle.dump(visited, f).
DumpBegin ==
    /\ main_pc = "dump"
    /\ IF Picklable
       THEN /\ main_pc' = "dumping"
            /\ snapshot' = Pickled
       ELSE \* TypeError: cannot pickle '_thread.lock' object
            /\ main_pc' = "dump_failed"
            /\ snapshot' = Truncated
    /\ UNCHANGED <<queueVars, visitedVars, memory, pc, task, done_callback, failure,
                   empty_seen, storeVars, fetches, todo_puts, acks, submitted, stop_sent,
                   repairVars>>

\* The end of pickle.dump(visited, f). The main thread holds no lock while the
\* pickler iterates over the sets and the crawlers keep running: an entry
\* written after a crawler's add holds the grown set, and a set that grows
\* while the pickler is iterating over it makes the pickler raise
\* RuntimeError (set changed size during iteration), which nothing catches.
DumpEnd ==
    /\ main_pc = "dumping"
    /\ \/ /\ main_pc' = "snapshotted"
          /\ \E late \in SUBSET Folders :
                snapshot' = [f \in Folders |-> IF f \in late THEN Pickled[f] ELSE snapshot[f]]
       \/ /\ snapshot # Pickled
          /\ main_pc' = "dump_failed"
          /\ snapshot' = Truncated
    /\ UNCHANGED <<queueVars, visitedVars, memory, pc, task, done_callback, failure,
                   empty_seen, storeVars, fetches, todo_puts, acks, submitted, stop_sent,
                   repairVars>>

\* ------------------------------------------------- external producers
\* The provenance an externally produced task may carry: none (as the seed),
\* or a reference from an entity of another folder.
Referrer(folder) ==
    IF folder = "hackers" THEN [name |-> "proj1", folder |-> "devposts"]
                          ELSE [name |-> "alice", folder |-> "hackers"]

\* A producer other than this run's extractors puts {'name': name} or
\* {'name': name, 'from': ...} on a typed queue (what the main thread does
\* with the seed); a dict equal to one already produced is not produced again.
Submit(folder, name, has_from) ==
    LET item == Item(name, has_from, IF has_from THEN Referrer(folder) ELSE NoKey)
    IN  /\ submitted < MaxSubmit
        /\ Task(folder, item) \notin DOMAIN done_callback
        /\ \A i \in 1 .. Len(queue[folder]) : queue[folder][i] # item
        /\ queue' = Put(queue, folder, <<item>>)
        /\ unfinished_tasks' = PutCount(unfinished_tasks, folder, 1)
        /\ submitted' = submitted + 1
        /\ UNCHANGED <<visitedVars, memory, pc, task, done_callback, failure,
                       empty_seen, main_pc, storeVars, fetches, todo_puts, acks,
                       stop_sent, snapshot, repairVars>>

\* Number of workers that consume a queue: one sentinel is sent for each.
Consumers(q) == IF q = "todo" THEN PARSER_COUNT ELSE CRAWLER_COUNT
Sentinels(q) == [i \in 1 .. Consumers(q) |-> Sentinel]

\* The stop sentinel NULL_CMD is put on all four queues, once per worker.
SendStop ==
    /\ ~stop_sent
    /\ stop_sent' = TRUE
    /\ queue' = [q \in QueueNames |-> queue[q] \o Sentinels(q)]
    /\ unfinished_tasks' = [q \in QueueNames |-> unfinished_tasks[q] + Consumers(q)]
    /\ UNCHANGED <<visitedVars, memory, pc, task, done_callback, failure,
                   empty_seen, main_pc, storeVars, fetches, todo_puts, acks,
                   submitted, snapshot, repairVars>>

\* ------------------------------------------------------- the crawl
Next ==
    \/ \E c \in Crawlers : get_crawler_task(c)
    \/ \E c \in Crawlers : CrawlerLock(c)
    \/ \E c \in Crawlers : CrawlerFetch(c)
    \/ \E c \in Crawlers : CrawlerEnqueue(c)
    \/ \E c \in Crawlers : CrawlerAck(c)
    \/ \E p \in Parsers : get_parser_task(p)
    \/ \E p \in Parsers : ParserParse(p)
    \/ Main

Spec == Init /\ [][Next]_vars

\* The threads under a fair scheduler: no thread that can run is held back forever.
CrawlerStep(c) ==
    get_crawler_task(c) \/ CrawlerLock(c) \/ CrawlerFetch(c) \/ CrawlerEnqueue(c) \/ CrawlerAck(c)
ParserStep(p) == get_parser_task(p) \/ ParserParse(p)
FairSpec ==
    /\ Spec
    /\ \A c \in Crawlers : WF_vars(CrawlerStep(c))
    /\ \A p \in Parsers : WF_vars(ParserStep(p))
    /\ WF_vars(Main)

\* The program with an operator who sends the stop sentinels at some moment.
NextStop == Next \/ SendStop
SpecStop == Init /\ [][NextStop]_vars

\* The program with an operator who may interrupt it at any moment.
NextInterrupt ==
    \/ Next
    \/ Interrupt
    \/ DumpBegin
    \/ DumpEnd
SpecInterrupt == Init /\ [][NextInterrupt]_vars

\* The program crawling a site that serves malformed project pages.
NextMalformed ==
    \/ Next
    \/ \E p \in Parsers : ParserParseFails(p)
SpecMalformed == Init /\ [][NextMalformed]_vars

\* The program from its first statement: the queues and memory exist, visited
\* is about to be built and no thread has been started.
InitStartup ==
    /\ queue = [q \in QueueNames |-> <<>>]
    /\ unfinished_tasks = [q \in QueueNames |-> 0]
    /\ lock = [f \in Folders |-> Nobody]
    /\ local = [f \in Folders |-> {}]
    /\ now = [f \in Folders |-> {}]
    /\ memory = [n \in AllNames |-> NoContent]
    /\ pc = [w \in Workers |-> "unstarted"]
    /\ task = [w \in Workers |-> NoTask]
    /\ done_callback = [t \in {} |-> "none"]
    /\ failure = [w \in Workers |-> "none"]
    /\ empty_seen = [c \in Crawlers |-> {}]
    /\ main_pc = "listdir"
    /\ nodes = [k \in NodeKeys |-> 0]
    /\ edges = [k \in EdgeKeys |-> 0]
    /\ fetches = [f \in Folders |-> [n \in NamesOf(f) |-> 0]]
    /\ todo_puts = [f \in Folders |-> [n \in NamesOf(f) |-> 0]]
    /\ acks = [t \in {} |-> NoAcks]
    /\ submitted = 0
    /\ stop_sent = FALSE
    /\ snapshot = NoSnapshot
    /\ RepairNotRun

\* visited = {...}: the three os.listdir calls succeed; the try block is
\* entered and the worker threads are started.
Startup ==
    /\ main_pc = "listdir"
    /\ local' = [f \in Folders |-> DiskFiles(f)]
    /\ pc' = [w \in Workers |-> IF w \in Crawlers THEN "get_hacker" ELSE "get"]
    /\ main_pc' = "put_seed"
    /\ UNCHANGED <<queueVars, lock, now, memory, task, done_callback, failure,
                   empty_seen, storeVars, fetches, todo_puts, acks, envVars>>

\* An os.listdir call raises OSError (a cache directory is missing or cannot
\* be read). The statement is not inside the try block: the exception ends
\* the main thread with a traceback, and no except clause runs.
StartupFails ==
    /\ main_pc = "listdir"
    /\ main_pc' = "startup_failed"
    /\ UNCHANGED <<queueVars, visitedVars, memory, pc, task, done_callback, failure,
                   empty_seen, storeVars, fetches, todo_puts, acks, envVars>>

NextStartup ==
    \/ Startup
    \/ StartupFails
    \/ NextInterrupt
SpecStartup == InitStartup /\ [][NextStartup]_vars

\* A run that is stopped by sentinels, and that a KeyboardInterrupt can hit.
NextShutdown ==
    \/ NextStop
    \/ Interrupt
    \/ DumpBegin
    \/ DumpEnd
SpecShutdown == Init /\ [][NextShutdown]_vars

\* ------------------------------------------------- repair.py, main()
\* The scrape phase: scraped_devposts[i] is the data of devposts[i], or None
\* where scrape_devpost_with_browser returned None; valid_scraped keeps the
\* entries that are not None, in index order, and one vectorization future
\* is submitted per entry with its index (from 0).
RepairScrape ==
    /\ repair_pc = "scrape"
    /\ \E failed \in SUBSET (1 .. Len(devposts)) :
          LET scraped_devposts == [i \in 1 .. Len(devposts) |->
                                      IF i \in failed THEN "None" ELSE devposts[i]]
              NotNone(x) == x # "None"
              valid == SelectSeq(scraped_devposts, NotNone)
          IN  /\ valid_scraped' = valid
              /\ future_to_index' = 0 .. Len(valid) - 1
              /\ repair_pc' = IF valid = <<>> THEN "returned_empty" ELSE "vectorize"
    /\ UNCHANGED <<vectors, vectors_array>>
    /\ UNCHANGED <<queueVars, visitedVars, memory, pc, task, done_callback, failure,
                   empty_seen, main_pc, storeVars, fetches, todo_puts, acks,
                   submitted, stop_sent, snapshot>>

\* One step of "for future in as_completed(future_to_index)": the future of
\* some index completes, whichever the process pool finishes next, and
\* vectors[index] = result is executed unless the result is None.
VectorizeCompletes(index, ok) ==
    /\ repair_pc = "vectorize"
    /\ index \in future_to_index
    /\ future_to_index' = future_to_index \ {index}
    /\ vectors' = IF ok THEN Append(vectors, <<index, Vector(valid_scraped[index + 1])>>)
                        ELSE vectors
    /\ UNCHANGED <<repair_pc, valid_scraped, vectors_array>>
    /\ UNCHANGED <<queueVars, visitedVars, memory, pc, task, done_callback, failure,
                   empty_seen, main_pc, storeVars, fetches, todo_puts, acks,
                   submitted, stop_sent, snapshot>>

\* list(vectors.values()): the values of the dict in insertion order.
DictValues(items) == [k \in 1 .. Len(items) |-> items[k][2]]

\* Every future has completed: vectors_array = np.array(list(vectors.values()))
\* and similarity_matrix = cosine_similarity(...) of its rows, row for row;
\* np.save. With no vector at all main returns {}.
BuildMatrix ==
    /\ repair_pc = "vectorize"
    /\ future_to_index = {}
    /\ IF vectors = <<>>
       THEN repair_pc' = "returned_empty" /\ UNCHANGED vectors_array
       ELSE repair_pc' = "saved" /\ vectors_array' = DictValues(vectors)
    /\ UNCHANGED <<valid_scraped, future_to_index, vectors>>
    /\ UNCHANGED <<queueVars, visitedVars, memory, pc, task, done_callback, failure,
                   empty_seen, main_pc, storeVars, fetches, todo_puts, acks,
                   submitted, stop_sent, snapshot>>

NextRepair ==
    \/ RepairScrape
    \/ \E index \in 0 .. Len(devposts) - 1 : \E ok \in BOOLEAN : VectorizeCompletes(index, ok)
    \/ BuildMatrix
SpecRepair == Init /\ [][NextRepair]_vars

\* The program with a second entry point: {'name': ...} put on q_hackathon, as
\* the main thread puts the seed on q_hacker.
NextSeeded ==
    \/ Next
    \/ \E n \in HackathonNames : Submit("hackathons", n, FALSE)
SpecSeeded == Init /\ [][NextSeeded]_vars

\* The router and the crawlers alone, fed by an external producer.
NextRouter ==
    \/ \E c \in Crawlers : get_crawler_task(c)
    \/ \E c \in Crawlers : CrawlerLock(c)
    \/ \E c \in Crawlers : CrawlerFetch(c)
    \/ \E c \in Crawlers : CrawlerEnqueue(c)
    \/ \E c \in Crawlers : CrawlerAck(c)
    \/ \E f \in Folders : \E n \in NamesOf(f) : \E b \in BOOLEAN : Submit(f, n, b)
SpecRouter == Init /\ [][NextRouter]_vars

\* The router and the crawlers with a fetch driver that can fail.
NextFault ==
    \/ NextRouter
    \/ \E c \in Crawlers : CrawlerFetchFails(c)
SpecFault == Init /\ [][NextFault]_vars

\* The graph writes on their own: each write statement of the extractors,
\* issued with any arguments in any order.
StoreHacker(name) ==
    /\ nodes' = MergeNode(nodes, HackerNode(name, "extracted"))
    /\ UNCHANGED <<queueVars, visitedVars, memory, pc, task, done_callback, failure,
                   empty_seen, main_pc, edges, fetches, todo_puts, acks, envVars>>

StoreDevpost(name) ==
    /\ nodes' = MergeNode(nodes, DevpostNode(name, "extracted"))
    /\ UNCHANGED <<queueVars, visitedVars, memory, pc, task, done_callback, failure,
                   empty_seen, main_pc, edges, fetches, todo_puts, acks, envVars>>

\* generate_connection of main.py
StoreConnection(hacker, devpost) ==
    /\ edges' = generate_connection(nodes, edges, hacker, devpost)
    /\ UNCHANGED <<queueVars, visitedVars, memory, pc, task, done_callback, failure,
                   empty_seen, main_pc, nodes, fetches, todo_puts, acks, envVars>>

\* generate_connection of hackathon.py
StoreConnectionHackathon(hacker, devpost) ==
    /\ edges[[h |-> hacker, d |-> devpost]] < MaxCopies
    /\ edges' = generate_connection_hackathon(nodes, edges, hacker, devpost)
    /\ UNCHANGED <<queueVars, visitedVars, memory, pc, task, done_callback, failure,
                   empty_seen, main_pc, nodes, fetches, todo_puts, acks, envVars>>

NextStore ==
    \/ \E n \in HackerNames : StoreHacker(n)
    \/ \E n \in DevpostNames : StoreDevpost(n)
    \/ \E h \in HackerNames : \E d \in DevpostNames : StoreConnection(h, d)
    \/ \E h \in HackerNames : \E d \in DevpostNames : StoreConnectionHackathon(h, d)
SpecStore == Init /\ [][NextStore]_vars

\* ------------------------------------------------------------ properties
TypeOK ==
    /\ \A q \in QueueNames : unfinished_tasks[q] >= 0
    /\ \A f \in Folders : lock[f] \in Crawlers \cup {Nobody}
    /\ \A c \in Crawlers : pc[c] \in {"lock", "fetching", "enqueue", "ack"} => task[c] \in Tasks
    /\ DOMAIN done_callback \subseteq Tasks
    /\ DOMAIN acks = DOMAIN done_callback
    \* a task dict is identified by its folder, name and provenance: no two
    \* dicts of a run agree on all three
    /\ \A f \in Folders : \A i \in 1 .. Len(queue[f]) :
          queue[f][i] # Sentinel =>
             /\ Task(f, queue[f][i]) \notin DOMAIN done_callback
             /\ \A j \in 1 .. Len(queue[f]) : queue[f][j] = queue[f][i] => j = i

\* Two crawlers hold tasks for the same entity.
SameEntity(c1, c2) ==
    /\ c1 # c2
    /\ task[c1] # NoTask
    /\ task[c1].folder = task[c2].folder
    /\ task[c1].name = task[c2].name

\* C1: whatever the interleaving of the crawlers and of the submissions of a
\* task (T, X), the page of (T, X) is fetched at most once.
C1_FetchedAtMostOnce ==
    \A f \in Folders : \A n \in NamesOf(f) : fetches[f][n] <= 1

\* C1 witness: two crawlers race on the same name; one has fetched it and is
\* inside the exclusive region, the other waits for the lock.
C1_Witness ==
    \E c1, c2 \in Crawlers :
        /\ SameEntity(c1, c2)
        /\ pc[c1] = "lock"
        /\ pc[c2] \in {"enqueue", "ack"}
        /\ lock[task[c2].folder] = c2
        /\ fetches[task[c2].folder][task[c2].name] = 1

\* C2: however often (T, X) is submitted by the parsers, it is put on the
\* to-parse queue exactly once: never twice, 'now' holds X exactly when the
\* put has happened, and every crawler that is past the enqueue test of a
\* task for (T, X) finds the put made.
C2_EnqueuedExactlyOnce ==
    /\ \A f \in Folders : \A n \in NamesOf(f) :
          /\ todo_puts[f][n] <= 1
          /\ (n \in now[f]) <=> (todo_puts[f][n] = 1)
    /\ \A c \in Crawlers :
          pc[c] = "ack" => todo_puts[task[c].folder][task[c].name] = 1

\* C2 witness: two tasks for the same name, submitted by the extractors, are
\* held by two crawlers; one has enqueued the name and the other still waits.
C2_Witness ==
    \E c1, c2 \in Crawlers :
        /\ SameEntity(c1, c2)
        /\ task[c1].from # NO_FROM
        /\ task[c2].from # NO_FROM
        /\ pc[c1] = "lock"
        /\ pc[c2] = "ack"
        /\ todo_puts[task[c2].folder][task[c2].name] = 1

\* C3 (as claimed): every item put on a queue is marked complete exactly once:
\* no task dict is used for two task_done calls on the same queue, and no
\* task_done call finds its queue without an unfinished item.
C3_AckedExactlyOnce ==
    /\ \A t \in DOMAIN acks : \A q \in QueueNames : acks[t][q] <= 1
    /\ \A w \in Workers : failure[w] # "ValueError"

\* C4 (as claimed): the acknowledgement a crawler is about to make goes to
\* the typed queue its task was dequeued from.
C4_AckOnOriginatingQueue ==
    \A c \in Crawlers : pc[c] = "ack" => done_callback[task[c]] = task[c].folder

\* No worker holds a task and nothing waits on a queue or is unacknowledged.
Quiescent ==
    /\ \A q \in QueueNames : queue[q] = <<>> /\ unfinished_tasks[q] = 0
    /\ \A w \in Workers : task[w] = NoTask

\* C5 (as claimed): once the four joins have returned, all queues are empty
\* with zero unfinished items and no worker is fetching or parsing.
C5_JoinAllMeansQuiescent ==
    main_pc \in {"join_workers", "done"} => Quiescent

\* C6 (as claimed): once the crawl has drained every queue and acknowledged
\* every task, the workers leave their loops and the main thread gets past
\* the worker joins and reports that all workers stopped.
C6_TerminatesWhenDrained ==
    (Quiescent /\ main_pc # "put_seed") ~> (main_pc = "done")

\* C7 (as claimed): after the stop sentinels have been sent and the workers
\* have ended, no queue is left with an unacknowledged item.
C7_StopLeavesNothingInFlight ==
    (stop_sent /\ \A w \in Workers : Terminated(w)) =>
        \A q \in QueueNames : unfinished_tasks[q] = 0

\* C8 (as claimed): the sentinel taken from any of the three typed queues
\* makes get_crawler_task return Stop; it never makes the crawler fail.
C8_SentinelPropagatesStop ==
    \A c \in Crawlers : failure[c] # "TypeError"

\* The queues found empty before a task of this folder is returned.
EmptyBefore(folder) ==
    CASE folder = "hackers" -> {}
      [] folder = "devposts" -> {"hackers"}
      [] folder = "hackathons" -> {"hackers", "devposts"}

\* C9: a task returned by get_crawler_task comes from the first queue, in the
\* order hacker, project, hackathon, that was not found empty in that poll,
\* and NO_TASK is returned only after all three were found empty.
C9_PriorityOrder ==
    [][\A c \in Crawlers :
          /\ (pc[c] \notin {"lock", "fetching", "enqueue", "ack"} /\ pc'[c] = "lock")
                => empty_seen'[c] = EmptyBefore(task'[c].folder)
          /\ (pc[c] = "get_hackathon" /\ pc'[c] = "get_hacker")
                => /\ empty_seen[c] = {"hackers", "devposts"}
                   /\ queue["hackathons"] = <<>>]_vars

\* C9 witness: a crawler was handed a hackathon task after it found the
\* hacker and project queues empty, and the hacker queue has since been filled.
C9_Witness ==
    \E c \in Crawlers :
        /\ pc[c] = "lock"
        /\ task[c].folder = "hackathons"
        /\ empty_seen[c] = {"hackers", "devposts"}
        /\ queue["hackers"] # <<>>

\* C10 (as claimed): every node or edge write of the extractors, issued a
\* second time with the same arguments, leaves the store as the first left
\* it, and the store holds no node or edge twice.
C10_UpsertIdempotent ==
    /\ \A k \in NodeKeys : nodes[k] <= 1
    /\ \A k \in EdgeKeys : edges[k] <= 1
    /\ \A h \in HackerNames : \A d \in DevpostNames :
          LET n1 == MergeNode(nodes, HackerNode(h, "extracted"))
              n2 == MergeNode(nodes, DevpostNode(d, "extracted"))
              e1 == generate_connection(nodes, edges, h, d)
              e2 == generate_connection_hackathon(nodes, edges, h, d)
          IN  /\ MergeNode(n1, HackerNode(h, "extracted")) = n1
              /\ MergeNode(n2, DevpostNode(d, "extracted")) = n2
              /\ generate_connection(nodes, e1, h, d) = e1
              /\ generate_connection_hackathon(nodes, e2, h, d) = e2

\* Whether parse_devpost has run on the project: it alone merges a Devpost node.
DevpostParsed(d) == \E p \in {"extracted", "undefined"} : nodes[DevpostNode(d, p)] > 0

\* C11 (as claimed): once the project extractor has finished a project, the
\* store holds a CONTRIBUTED_TO edge to it from every contributor its page
\* lists, whether or not the contributor's Hacker node existed by then.
C11_EdgeForEveryContributor ==
    \A d \in DevpostNames :
        DevpostParsed(d) =>
            \A i \in 1 .. Len(PageLinks("devposts", d)) :
                edges[[h |-> PageLinks("devposts", d)[i], d |-> d]] >= 1

\* Whether the task dict has been put on q_todo: it waits there, or a parser
\* has dequeued it and rebound its done_callback.
OnTodo(t) ==
    \/ done_callback[t] = "todo"
    \/ \E i \in 1 .. Len(queue["todo"]) : queue["todo"][i] = t

\* C12: a crawler that takes the lock for a name already in 'local' and in
\* 'now' goes straight to the acknowledgement, and its passage leaves both
\* sets, the to-parse queue and the content cache as they were; the only
\* effect is one task_done on the typed queue the duplicate came from.
C12_DuplicateOnlyAcknowledged ==
    [][\A c \in Crawlers :
          LET t == task[c]
              f == task[c].folder
          IN  /\ (pc[c] = "lock" /\ pc'[c] # "lock"
                    /\ t.name \in local[f] /\ t.name \in now[f])
                   => /\ pc'[c] = "ack"
                      /\ UNCHANGED <<local, now, queue, memory, fetches, todo_puts>>
              /\ (pc[c] = "ack" /\ pc'[c] # "ack" /\ ~OnTodo(t))
                   => /\ acks'[t] = [NoAcks EXCEPT ![f] = 1]
                      /\ unfinished_tasks' = [unfinished_tasks EXCEPT ![f] = @ - 1]
                      /\ failure'[c] = "none"
                      /\ UNCHANGED <<local, now, queue, memory, fetches, todo_puts>>]_vars

\* C12 witness: a hacker rediscovered through a project's contributor list is
\* held by a crawler that found it in both sets and is about to acknowledge it.
C12_Witness ==
    \E c \in Crawlers :
        /\ pc[c] = "ack"
        /\ ~OnTodo(task[c])
        /\ task[c].folder = "hackers"
        /\ task[c].from.folder = "devposts"
        /\ task[c].name \in local["hackers"] \cap now["hackers"]
        /\ fetches["hackers"][task[c].name] = 1
        /\ todo_puts["hackers"][task[c].name] = 1

\* No crawler waits for a lock whose holder's thread has ended.
NoDeadHolder ==
    \A c \in Crawlers :
        (pc[c] = "lock" /\ lock[task[c].folder] # Nobody)
            => pc[lock[task[c].folder]] \in {"fetching", "enqueue", "ack"}

\* C13: when driver.get fails for (T, X), the lock of T is free afterwards, X
\* has not been added to 'local', no other worker has been stopped by it, and
\* no crawler is ever left waiting for a lock that a dead thread holds.
C13_FetchFailureReleasesLock ==
    [][/\ \A c \in Crawlers :
             (failure[c] = "none" /\ failure'[c] = "WebDriverException")
                => /\ lock'[task[c].folder] = Nobody
                   /\ local' = local
                   /\ \A w \in Workers \ {c} : pc'[w] = pc[w] /\ failure'[w] = failure[w]
       /\ NoDeadHolder'
       /\ \A c \in Crawlers : failure'[c] \in {"none", "WebDriverException"}]_vars

\* C13 witness: the fetch of a name failed in one crawler, and another
\* crawler has since taken the lock of the same folder and fetches that name.
C13_Witness ==
    \E c1, c2 \in Crawlers :
        /\ SameEntity(c1, c2)
        /\ failure[c1] = "WebDriverException"
        /\ task[c1].name \notin local[task[c1].folder]
        /\ lock[task[c1].folder] = c2
        /\ pc[c2] = "fetching"

\* C14 (as claimed): a task whose fetch failed is acknowledged on its typed
\* queue and the crawler that hit the failure goes on to its next task.
C14_FailedFetchDroppedAndAcked ==
    \A c \in Crawlers :
        failure[c] = "WebDriverException"
            => /\ acks[task[c]][task[c].folder] = 1
               /\ ~Terminated(c)

\* C15 (as claimed): once the handler of an interrupt has run, visited.pkl
\* holds, for each of the three folders, the 'local' and 'now' sets as they
\* were when they were written, and no lock.
C15_InterruptProducesSnapshot ==
    main_pc \in {"snapshotted", "dump_failed"} =>
        /\ DOMAIN snapshot = Folders
        /\ \A f \in Folders :
              /\ DOMAIN snapshot[f] = {"local", "now"}
              /\ snapshot[f].local \subseteq local[f]
              /\ snapshot[f].now \subseteq now[f]

\* C16 (as claimed): after the snapshot has been written no worker polls,
\* fetches or parses any more: the only step a worker still takes ends it.
C16_InterruptStopsWorkers ==
    [][main_pc = "snapshotted" =>
          \A w \in Workers : pc'[w] = pc[w] \/ pc'[w] \in {"exit", "crashed"}]_vars

\* C17: no step of a crawler, a parser or the main thread, the except handler
\* included, removes a name from 'local' or from 'now' of any folder.
C17_VisitedOnlyGrows ==
    [][\A f \in Folders : local[f] \subseteq local'[f] /\ now[f] \subseteq now'[f]]_vars

\* C17 witness: crawlers have added to both sets, a parser has written to the
\* store, the handler has run, and a folder's 'local' holds a name besides
\* those it started with.
C17_Witness ==
    /\ main_pc = "snapshotted"
    /\ \E k \in NodeKeys : nodes[k] > 0
    /\ \E f \in Folders :
          /\ DiskFiles(f) # {}
          /\ local[f] \ DiskFiles(f) # {}
          /\ now[f] # {}

\* The crawler is inside the with block of its task's folder.
InRegion(c) == pc[c] \in {"fetching", "enqueue", "ack"}

\* At most one crawler is inside the with block of a folder, and it holds the lock.
Mutex ==
    /\ \A c \in Crawlers : InRegion(c) => lock[task[c].folder] = c
    /\ \A c1, c2 \in Crawlers :
          (InRegion(c1) /\ InRegion(c2) /\ task[c1].folder = task[c2].folder) => c1 = c2

\* C18: 'local' and 'now' of a folder change only by a step of the crawler
\* that holds the folder's lock, and no two crawlers are inside the same
\* folder's with block, also after the handler has deleted the lock keys.
C18_MutatedOnlyUnderLock ==
    [][/\ Mutex'
       /\ \A f \in Folders :
             (local'[f] # local[f] \/ now'[f] # now[f])
                => \E c \in Crawlers :
                      /\ InRegion(c)
                      /\ task[c].folder = f
                      /\ lock[f] = c
                      /\ pc'[c] # pc[c]]_vars

\* C18 witness: the handler has deleted the lock keys while one crawler is
\* inside a folder's with block, about to add to 'local', and another crawler
\* waits for the same lock.
C18_Witness ==
    \E c1, c2 \in Crawlers :
        /\ main_pc \in HandlerPcs
        /\ pc[c1] = "fetching"
        /\ pc[c2] = "lock"
        /\ task[c1].folder = task[c2].folder
        /\ lock[task[c1].folder] = c1

\* C19 (as claimed): a parser that has dequeued a task finds memory[name]
\* present and holding the page fetched for that task's own folder and name,
\* also when the name is used in two folders.
C19_ContentPresentAndOwn ==
    \A p \in Parsers :
        /\ failure[p] # "KeyError"
        /\ pc[p] = "parse" => memory[task[p].name] = Page(task[p].folder, task[p].name)

\* A parser's step that runs parse_devpost on the project's page.
ParsesDevpost(p) ==
    /\ pc[p] = "parse"
    /\ pc'[p] # "parse"
    /\ task[p].folder = "devposts"
    /\ memory[task[p].name] = Page("devposts", task[p].name)

\* C20 (as claimed): the project extractor puts a Hacker task only for a
\* contributor that is not in 'now' of the hackers and not waiting on q_hacker.
C20_OnlyNewContributorsEnqueued ==
    [][\A p \in Parsers :
          ParsesDevpost(p) =>
              \A i \in Len(queue["hackers"]) + 1 .. Len(queue'["hackers"]) :
                  /\ queue'["hackers"][i].name \notin now["hackers"]
                  /\ \A j \in 1 .. Len(queue["hackers"]) :
                        queue["hackers"][j].name # queue'["hackers"][i].name]_vars

\* C20 (amended): the project extractor puts one Hacker task, with the
\* project as its provenance, for every contributor its page lists, in page
\* order, whether or not the contributor has been enqueued before.
C20_EveryContributorEnqueued ==
    [][\A p \in Parsers :
          ParsesDevpost(p) =>
              LET refs == PageLinks("devposts", task[p].name)
                  before == Len(queue["hackers"])
              IN  /\ Len(queue'["hackers"]) = before + Len(refs)
                  /\ \A i \in 1 .. Len(refs) :
                        queue'["hackers"][before + i] =
                            Item(refs[i], TRUE, [name |-> task[p].name, folder |-> "devposts"])]_vars

\* C20 witness: a project has been parsed and q_hacker holds the task it put
\* for a contributor whose name is already in 'now' of the hackers.
C20_Witness ==
    \E d \in DevpostNames :
        /\ DevpostParsed(d)
        /\ \E i \in 1 .. Len(queue["hackers"]) :
              /\ queue["hackers"][i].from = [name |-> d, folder |-> "devposts"]
              /\ queue["hackers"][i].name \in now["hackers"]

\* The typed queue a crawler polls at a position of get_crawler_task.
PolledQueue(position) ==
    CASE position = "get_hacker" -> "hackers"
      [] position = "get_devpost" -> "devposts"
      [] position = "get_hackathon" -> "hackathons"

\* C21: parse_hacker appends to q_devpost one dict per project referenced on
\* the hacker's page, in page order, whose 'from' names that hacker and the
\* folder hackers; and the task get_crawler_task builds carries the dict's
\* 'from', or {'name': 'Unknown', 'folder': 'Unknown'} if the dict has none.
C21_ProjectTasksCarryProvenance ==
    [][/\ \A p \in Parsers :
             (pc[p] = "parse" /\ pc'[p] # "parse" /\ task[p].folder = "hackers"
                 /\ memory[task[p].name] = Page("hackers", task[p].name))
                => LET refs == PageLinks("hackers", task[p].name)
                       before == Len(queue["devposts"])
                   IN  /\ Len(queue'["devposts"]) = before + Len(refs)
                       /\ \A i \in 1 .. Len(refs) :
                             LET item == queue'["devposts"][before + i]
                             IN  /\ item.name = refs[i]
                                 /\ item.has_from
                                 /\ item.from = [name |-> task[p].name, folder |-> "hackers"]
       /\ \A c \in Crawlers :
             (pc[c] \in {"get_hacker", "get_devpost", "get_hackathon"} /\ pc'[c] = "lock")
                => LET item == Head(queue[PolledQueue(pc[c])])
                   IN  /\ task'[c].name = item.name
                       /\ task'[c].folder = PolledQueue(pc[c])
                       /\ item.has_from => task'[c].from = item.from
                       /\ ~item.has_from =>
                             task'[c].from = [name |-> "Unknown", folder |-> "Unknown"]]_vars

\* C21 witness: the seed, put without a 'from', became a task with the Unknown
\* provenance and its page has been parsed; a crawler holds a project task
\* that names the seed hacker as its provenance.
C21_Witness ==
    /\ [folder |-> "hackers", name |-> SeedName, from |-> NO_FROM] \in DOMAIN acks
    /\ \E k \in NodeKeys : k.label = "Hacker" /\ k.name = SeedName /\ nodes[k] > 0
    /\ \E c \in Crawlers :
          /\ pc[c] = "lock"
          /\ task[c].folder = "devposts"
          /\ task[c].from = [name |-> SeedName, folder |-> "hackers"]

\* C22 (as claimed): a page the extractor cannot take apart never ends a
\* parser: the task is still acknowledged on q_todo and the parser goes on.
C22_ExtractionFailureTolerated ==
    \A p \in Parsers : ~(Terminated(p) /\ failure[p] = "IndexError")

\* Every task dict that no worker holds and that does not wait on q_todo has
\* been acknowledged.
AllCarriedThrough ==
    \A t \in DOMAIN acks :
        ((\A w \in Workers : task[w] # t) /\ ~OnTodo(t))
            => acks[t]["todo"] + acks[t][t.folder] >= 1

\* C23: a worker leaves its loop only from a poll, on dequeuing the sentinel,
\* with no task in hand and no lock held; and no task dict is left behind
\* unacknowledged by the worker that had it.
C23_StopOnlyAtPollBoundary ==
    [][/\ \A w \in Workers :
             (pc[w] # "exit" /\ pc'[w] = "exit")
                => /\ pc[w] \in {"get_hacker", "get_devpost", "get_hackathon", "get"}
                   /\ task[w] = NoTask
                   /\ task'[w] = NoTask
                   /\ \A f \in Folders : lock[f] # w
                   /\ \E q \in QueueNames :
                         queue[q] # <<>> /\ Head(queue[q]) = Sentinel /\ queue'[q] = Tail(queue[q])
       /\ AllCarriedThrough']_vars

\* C23 witness: the sentinels were sent while tasks were in flight, and every
\* worker has since left its loop after the store was written.
C23_Witness ==
    /\ stop_sent
    /\ \A w \in Workers : pc[w] = "exit"
    /\ \E k \in NodeKeys : nodes[k] > 0
    /\ \E t \in DOMAIN acks : acks[t]["todo"] + acks[t][t.folder] >= 1

\* C24: a crawler whose q.get times out on an empty queue goes to the next
\* queue, and after the third to the first again (NO_TASK): it does not exit
\* or fail, takes no task, and the step leaves every queue, every in-flight
\* count, the local and now sets of every folder, the locks and memory
\* unchanged; a parser that finds q_todo empty stays at its poll.
C24_NoWorkPollsAgain ==
    [][/\ \A c \in Crawlers :
             (/\ pc[c] \in {"get_hacker", "get_devpost", "get_hackathon"}
              /\ queue[PolledQueue(pc[c])] = <<>>
              /\ pc'[c] # pc[c])
                => /\ pc'[c] = CASE pc[c] = "get_hacker" -> "get_devpost"
                                 [] pc[c] = "get_devpost" -> "get_hackathon"
                                 [] pc[c] = "get_hackathon" -> "get_hacker"
                   /\ failure'[c] = "none"
                   /\ task'[c] = NoTask
                   /\ UNCHANGED <<queue, unfinished_tasks, local, now, lock, memory>>
       /\ \A p \in Parsers :
             (pc[p] = "get" /\ queue["todo"] = <<>>)
                => (pc'[p] = "get" /\ failure'[p] = "none" /\ task'[p] = task[p])]_vars

\* C24 witness: a crawler has found q_hacker and q_devpost empty and is at
\* q_hackathon, all three typed queues and q_todo are empty, a parser is at
\* its poll, and the run is not over: another crawler has a task in hand.
C24_Witness ==
    \E c \in Crawlers :
        /\ pc[c] = "get_hackathon"
        /\ empty_seen[c] = {"hackers", "devposts"}
        /\ \A q \in QueueNames : queue[q] = <<>>
        /\ \E p \in Parsers : pc[p] = "get"
        /\ \E d \in Crawlers \ {c} : task[d] # NoTask

\* The dicts without a 'from' key that are on q_hacker or have become tasks:
\* of all puts of the program, only the main thread's has no 'from'.
SeedCount ==
    Cardinality({i \in 1 .. Len(queue["hackers"]) : ~queue["hackers"][i].has_from})
        + Cardinality({t \in DOMAIN acks : t.from = NO_FROM})

\* C25 as stated: when the main thread puts the seed no worker has polled a
\* queue yet.
C25_SeedBeforePolling ==
    main_pc = "put_seed"
        => \A c \in Crawlers : pc[c] = "get_hacker" /\ empty_seen[c] = {}

\* C25 amended: the main thread puts exactly one dict, the seed, on q_hacker,
\* after the worker threads were started: until then the workers can poll but
\* find every queue empty and take no task, and from then on the seed is the
\* only dict without a 'from'.
C25_OneSeedAfterWorkersStart ==
    /\ main_pc = "put_seed"
          => /\ \A q \in QueueNames : queue[q] = <<>> /\ unfinished_tasks[q] = 0
             /\ DOMAIN acks = {}
             /\ \A w \in Workers :
                   /\ task[w] = NoTask
                   /\ pc[w] \in {"get_hacker", "get_devpost", "get_hackathon", "get"}
    /\ main_pc # "put_seed"
          => /\ SeedCount = 1
             /\ \A i \in 1 .. Len(queue["hackers"]) :
                   ~queue["hackers"][i].has_from => queue["hackers"][i].name = SeedName
             /\ \A t \in DOMAIN acks : t.from = NO_FROM => t.name = SeedName

\* C25 witness: the seed is on q_hacker and a crawler that polled q_hacker
\* and q_devpost before the put, finding them empty, is at q_hackathon.
C25_Witness ==
    /\ main_pc = "join_1"
    /\ queue["hackers"] = Seeds
    /\ \E c \in Crawlers :
          pc[c] = "get_hackathon" /\ empty_seen[c] = {"hackers", "devposts"}

\* C26: a crawler waiting for the lock of a folder that no crawler holds can
\* take it, whoever holds the locks of the other folders and wherever in the
\* with block (the fetch included) the holders are.
C26_FoldersLockIndependently ==
    \A c \in Crawlers :
        (pc[c] = "lock" /\ lock[task[c].folder] = Nobody) => ENABLED CrawlerLock(c)

\* C26 witness: two crawlers are inside the with blocks of two different
\* folders at once, one of them waiting for driver.get to return.
C26_Witness ==
    \E c, d \in Crawlers :
        /\ c # d
        /\ InRegion(c) /\ InRegion(d)
        /\ task[c].folder # task[d].folder
        /\ lock[task[c].folder] = c /\ lock[task[d].folder] = d
        /\ pc[c] = "fetching"

\* C27 (as claimed): when building visited fails with an OSError, visited.pkl
\* is written with the 'local' and 'now' sets of the three folders and no
\* lock, as it is for an interrupt.
C27_StartupFaultProducesSnapshot ==
    main_pc = "startup_failed" =>
        /\ DOMAIN snapshot = Folders
        /\ \A f \in Folders : DOMAIN snapshot[f] = {"local", "now"}

\* C28 as stated: a crawler about to call task['done_callback']() holds no
\* lock.
C28_AckOutsideRegion ==
    \A c \in Crawlers : pc[c] = "ack" => \A f \in Folders : lock[f] # c

\* C28 amended: task['done_callback']() is the last statement of the with
\* block: the crawler calls it holding the lock of the task's folder, the call
\* counts one acknowledgement for the task, and the lock is released as the
\* block is left, right after the call.
C28_AckInsideRegion ==
    [][\A c \in Crawlers :
          (pc[c] = "ack" /\ pc'[c] # "ack")
             => /\ lock[task[c].folder] = c
                /\ lock'[task[c].folder] = Nobody
                /\ \E q \in QueueNames :
                      acks'[task[c]] = [acks[task[c]] EXCEPT ![q] = @ + 1]]_vars

\* C28 witness: a crawler is at the acknowledgement with the lock of its
\* task's folder in hand while another crawler waits for that lock.
C28_Witness ==
    \E c, d \in Crawlers :
        /\ c # d
        /\ pc[c] = "ack"
        /\ lock[task[c].folder] = c
        /\ pc[d] = "lock"
        /\ task[d].folder = task[c].folder

\* C29 (as claimed): whatever the folder of the task, hackathons included, the
\* step in which a parser is done with a task and goes back to its poll calls
\* the task's done_callback once, so that the Queue.join() the task counts
\* for can return.
C29_ParserAcksEveryTask ==
    [][\A p \in Parsers :
          (pc[p] = "parse" /\ pc'[p] = "get")
             => \E q \in QueueNames :
                   acks'[task[p]] = [acks[task[p]] EXCEPT ![q] = @ + 1]]_vars

\* C30: visited.pkl is written by the except handler only: once the joins
\* have returned and "All workers stopped." is printed, the main thread is
\* over and no snapshot exists or is written later; the snapshot changes only
\* while the handler runs.
C30_NoSnapshotOnNormalShutdown ==
    /\ [](main_pc = "done" => snapshot = NoSnapshot)
    /\ [][/\ main_pc = "done" => (main_pc' = "done" /\ snapshot' = NoSnapshot)
          /\ snapshot' # snapshot => main_pc \in {"dump", "dumping"}]_vars

\* C30 witness: every Queue.join() and every Thread.join() has returned: the
\* crawl was exhausted, the sentinels were sent, every worker left its loop,
\* the main thread is over, and no snapshot was written.
C30_Witness ==
    /\ main_pc = "done"
    /\ stop_sent
    /\ \A w \in Workers : pc[w] = "exit"
    /\ \E k \in NodeKeys : nodes[k] > 0
    /\ snapshot = NoSnapshot

\* C31: in every state and for every folder, 'now' is a subset of 'local': a
\* name is added to 'now' only by a crawler that found it in 'local' or has
\* just added it there.
C31_NowSubsetOfLocal ==
    \A f \in Folders : now[f] \subseteq local[f]

\* C31 witness: 'now' holds a name that was on disk at startup and a name
\* that was fetched in this run, and a crawler that has fetched a further
\* name has not enqueued it yet.
C31_Witness ==
    /\ \E f \in Folders : now[f] \cap DiskFiles(f) # {}
    /\ \E f \in Folders : now[f] \ DiskFiles(f) # {}
    /\ \E c \in Crawlers :
          /\ pc[c] = "enqueue"
          /\ task[c].name \in local[task[c].folder] \ DiskFiles(task[c].folder)
          /\ task[c].name \notin now[task[c].folder]

\* C32 (as claimed): with every thread scheduled fairly and no fetch or
\* extraction failing, the crawl started by the seed reaches a state where
\* the four queues are empty, none has an unfinished item and no worker holds
\* a task.
C32_CrawlReachesQuiescence ==
    <>(main_pc # "put_seed" /\ Quiescent)

\* The entities (folder, name) that the pages link to from a set of entities.
LinkedFrom(S) ==
    UNION {{<<TargetQueue(e[1]), PageLinks(e[1], e[2])[i]>> :
               i \in 1 .. Len(PageLinks(e[1], e[2]))} : e \in S}

\* The entities reachable from a set by following hacker -> project and
\* project -> contributor links.
RECURSIVE Closure(_)
Closure(S) == IF LinkedFrom(S) \subseteq S THEN S ELSE Closure(S \cup LinkedFrom(S))
Reachable == Closure({<<"hackers", SeedName>>})

\* No thread has been ended by an exception.
FailureFree == \A w \in Workers : failure[w] = "none" /\ pc[w] # "crashed"

\* C33: when a run in which nothing failed is quiescent, 'now' of hackers and
\* of devposts holds exactly the names reachable from the seed, each of them
\* was put on q_todo exactly once and taken from it, and its node has been
\* written by its extractor.
C33_QuiescentMeansFrontierVisited ==
    (main_pc # "put_seed" /\ Quiescent /\ FailureFree) =>
        \A f \in {"hackers", "devposts"} :
            /\ now[f] = {n \in NamesOf(f) : <<f, n>> \in Reachable}
            /\ \A n \in NamesOf(f) :
                  todo_puts[f][n] = IF <<f, n>> \in Reachable THEN 1 ELSE 0
            /\ \A n \in now[f] :
                  \E k \in NodeKeys :
                      /\ k.name = n
                      /\ k.label = (IF f = "hackers" THEN "Hacker" ELSE "Devpost")
                      /\ nodes[k] > 0

\* C33 witness: a run in which nothing failed is quiescent after the seed,
\* both projects and the second contributor were discovered, and the project
\* whose page was on disk was parsed without being fetched.
C33_Witness ==
    /\ main_pc # "put_seed"
    /\ Quiescent
    /\ FailureFree
    /\ "bob" \in now["hackers"]
    /\ "proj2" \in now["devposts"]
    /\ fetches["devposts"]["proj2"] = 0

\* The (hacker, project) pairs that some reachable page references, from
\* either side.
ReferencedPairs ==
    {e \in EdgeKeys :
        \/ <<"hackers", e.h>> \in Reachable
              /\ \E i \in 1 .. Len(PageLinks("hackers", e.h)) : PageLinks("hackers", e.h)[i] = e.d
        \/ <<"devposts", e.d>> \in Reachable
              /\ \E i \in 1 .. Len(PageLinks("devposts", e.d)) : PageLinks("devposts", e.d)[i] = e.h}

\* C34 (as claimed): the CONTRIBUTED_TO edges in the store when a run in which
\* nothing failed is quiescent are a function of the pages alone, the same
\* in every interleaving: the referenced pairs, whichever of the two pages of
\* a pair was parsed first.
C34_StoreIndependentOfOrder ==
    (main_pc # "put_seed" /\ Quiescent /\ FailureFree) =>
        {e \in EdgeKeys : edges[e] > 0} = ReferencedPairs

\* Two quiescent outcomes of the same crawl: with and without the edge from
\* the second contributor to the first project.
C34_EdgePresentAtQuiescence ==
    main_pc # "put_seed" /\ Quiescent /\ FailureFree
        /\ edges[[h |-> "bob", d |-> "proj1"]] > 0
C34_EdgeAbsentAtQuiescence ==
    main_pc # "put_seed" /\ Quiescent /\ FailureFree
        /\ edges[[h |-> "bob", d |-> "proj1"]] = 0

\* C35: a crawler holds at most one lock, and only while it is inside the
\* with block, where it waits for no queue and no lock; no parser holds a
\* lock; and, the threads being scheduled fairly and every driver.get
\* returning, a crawler that waits for a folder's lock gets it.
C35_NoDeadlock ==
    /\ [](\A c \in Crawlers :
             /\ Cardinality({f \in Folders : lock[f] = c}) <= 1
             /\ \A f \in Folders : lock[f] = c => (InRegion(c) /\ task[c].folder = f))
    /\ [](\A f \in Folders : lock[f] \notin Parsers)
    /\ \A c \in Crawlers : (pc[c] = "lock") ~> InRegion(c)

\* C35 witness: a crawler waits for a lock that another crawler, inside the
\* with block, holds.
C35_Witness ==
    \E c, d \in Crawlers :
        /\ pc[c] = "lock"
        /\ lock[task[c].folder] = d
        /\ InRegion(d)
        /\ d # c

\* C36 (as claimed): after the handler has deleted the 'lock' keys, a crawler
\* that dequeues a task still finds what it needs in visited and does not
\* fail, and no crawler changes a set while pickle.dump is writing it, so
\* the dump is not broken off.
C36_SnapshotLeavesWorkersRunning ==
    /\ \A c \in Crawlers : failure[c] # "KeyError"
    /\ snapshot # Truncated

\* A to-parse task for this name is on its way: a crawler that has the page is
\* about to put it on q_todo, or it waits on q_todo, or a parser has just
\* dequeued it.
ToParsePending(n) ==
    \/ \E c \in Crawlers : pc[c] = "enqueue" /\ task[c].name = n
    \/ \E i \in 1 .. Len(queue["todo"]) :
          queue["todo"][i] # Sentinel /\ queue["todo"][i].name = n
    \/ \E p \in Parsers : pc[p] = "parse" /\ task[p].name = n

\* C37: memory holds a page only while a to-parse task for it is pending,
\* each page is put on q_todo once, and when a run in which nothing failed
\* is quiescent memory is empty.
C37_MemoryEmptyAtQuiescence ==
    /\ \A n \in AllNames : memory[n] # NoContent => ToParsePending(n)
    /\ (main_pc # "put_seed" /\ Quiescent /\ FailureFree) =>
          /\ \A n \in AllNames : memory[n] = NoContent
          /\ \A f \in Folders : \A n \in NamesOf(f) :
                (fetches[f][n] > 0 \/ n \in now[f]) => todo_puts[f][n] = 1

\* C37 witness: a run in which nothing failed is quiescent with memory empty
\* after pages were fetched, and one page was loaded from its file, put on
\* q_todo and parsed.
C37_Witness ==
    /\ main_pc # "put_seed"
    /\ Quiescent
    /\ FailureFree
    /\ \A n \in AllNames : memory[n] = NoContent
    /\ \E f \in Folders : \E n \in NamesOf(f) : fetches[f][n] > 0
    /\ \E f \in Folders : \E n \in DiskFiles(f) : todo_puts[f][n] = 1 /\ fetches[f][n] = 0

\* C38 (as claimed): when every project was vectorized and the similarity
\* matrix has been saved, row i of vectors_array is the vector of the i-th
\* entry of valid_scraped, whatever order the vectorization futures completed
\* in.
C38_RowsOrderedByProjectIndex ==
    (repair_pc = "saved" /\ Len(vectors_array) = Len(valid_scraped)) =>
        \A k \in 1 .. Len(vectors_array) : vectors_array[k] = Vector(valid_scraped[k])
====
